---- MODULE Spec2Model ----
(***************************************************************************)
(* A model of populate_database.py: the daily population flow (main), the  *)
(* backfill flow (run_backfill / backfill_data) and the Knowledge Graph    *)
(* API client (fetch_entity_data), over the two-table store they share.    *)
(*                                                                         *)
(* Conventions.                                                            *)
(*  - A JSON object / Python dict is a TLA+ function whose DOMAIN is its   *)
(*    key set, so an absent key is absent from the DOMAIN and dict.get is  *)
(*    the operator Get.                                                    *)
(*  - A score is a fixed-point number in units of 10^-5 (10.0 is 1000000,  *)
(*    0.00011 is 11).  Python's None is NoneScore for a score, NoneText    *)
(*    for a text column and NoneData for an API payload.                   *)
(*  - The database is transactional: a session's pending rows reach the    *)
(*    committed table only at session.commit(), and a process that dies    *)
(*    loses them.  A query sees the committed table and the session's own  *)
(*    pending rows (autoflush).                                            *)
(*  - One behaviour covers one calendar day, clock, the last of Dates:     *)
(*    backfill_data works on today and the days before it.                *)
(*  - Variables marked "history" record what happened; no action reads     *)
(*    them to decide what the program does (runs only caps the number of   *)
(*    invocations).                                                        *)
(***************************************************************************)
EXTENDS Integers, Sequences, FiniteSets, TLC

\* ---------------------------------------------------------------- bounds
NumEntities == 2
MaxItems == 2
MaxDate == 3
MaxRuns == 3

\* ------------------------------------------------------------- constants
NoneScore == -1
NoneText == "None"
NoneData == [py_none |-> TRUE]
EmptyDict == [x \in {} |-> 0]

AllEntities ==
    << "ClutchPoints", "Yahoo Sports", "The Sporting News", "Bleacher Report",
       "FanSided", "ESPN", "CBS Sports", "Sports Illustrated", "FOX Sports",
       "SB Nation", "The Athletic", "Essentially Sports" >>

ENTITIES == SubSeq(AllEntities, 1, NumEntities)

Dates == 1..MaxDate
Procs == {1, 2}

\* ------------------------------------------------------- python helpers
Get(d, key, default) == IF key \in DOMAIN d THEN d[key] ELSE default

IsNone(x) == "py_none" \in DOMAIN x

\* bool(api_data): None and the empty dict are falsy
Truthy(x) == ~IsNone(x) /\ DOMAIN x # {}

\* ------------------------------------------------- the API's responses
FullResult ==
    [ name |-> "name", description |-> "description",
      detailedDescription |-> [articleBody |-> "articleBody"] ]

I10 == [resultScore |-> 1000000, result |-> FullResult]
I0 == [resultScore |-> 0, result |-> FullResult]
ISmall == [resultScore |-> 11]
INoScore == [result |-> FullResult]

\* The API ranks its matches for a query and a response holds the first n of
\* them, n at most MaxItems (the request's 'limit' caps it at 3).  Between
\* them the two rankings hold an ordinary score (10.0), a score of 0, a score
\* near the rounding step (0.00011, in an item with no 'result') and an item
\* with no 'resultScore'.
Ranked(e) ==
    IF e % 2 = 1 THEN << I10, I0, ISmall, INoScore >>
    ELSE << ISmall, INoScore, I10, I0 >>

Payloads(e) ==
    {[itemListElement |-> SubSeq(Ranked(e), 1, n)] : n \in 0..MaxItems}
    \cup {[error |-> "quota"]}

\* what requests.get, raise_for_status and response.json meet
Responses(e) ==
    {[kind |-> "ok", body |-> b] : b \in Payloads(e)}
    \cup {[kind |-> k, body |-> NoneData] : k \in {"transport_error", "http_error"}}

NoResponse == [kind |-> "none", body |-> NoneData]

\* a variant that catches transport errors only: raise_for_status's error
\* leaves the function
FetchEntityData_NoCatch(key, resp) ==
    IF ~key THEN NoneData
    ELSE IF resp.kind = "ok" THEN resp.body
    ELSE IF resp.kind = "http_error" THEN [py_raise |-> TRUE]
    ELSE NoneData

\* fetch_entity_data: the value returned for what the HTTP call met (a value
\* with the key py_raise would stand for an exception leaving the function)
FetchEntityData(key, resp) ==
    IF ~key THEN NoneData
    ELSE IF resp.kind = "ok" THEN resp.body
    ELSE NoneData

Raised(x) == "py_raise" \in DOMAIN x

\* ------------------------------------------------------------------ state
VARIABLES
    API_KEY,          \* whether GOOGLE_API_KEY is set
    DATABASE_URL,     \* whether DATABASE_URL is set
    clock,            \* the calendar date
    entities,         \* table entities: the name of the row with id i
    results,          \* table knowledge_graph_daily_results: committed rows, in id order
    pc,               \* each process's position
    today,            \* main: today
    idx,              \* main: position in ENTITIES of entity_name
    response,         \* fetch_entity_data: what the HTTP call met
    api_data,         \* main: api_data
    item,             \* main: position in api_data['itemListElement']
    pending,          \* session: rows added and not yet committed
    source_results,   \* backfill_data: source_results
    dates,            \* backfill_data: source_date, start_date, current_date, end_date
    runs,             \* history: invocations started
    runId,            \* history: which invocation each process is
    origin,           \* history: origin[i] is the invocation that committed results[i]
    fetches,          \* history: fetch_entity_data calls per entity and date
    overlapped        \* history: an invocation started while another was running

vars ==
    << API_KEY, DATABASE_URL, clock, entities, results, pc, today, idx, response,
       api_data, item, pending, source_results, dates, runs, runId, origin,
       fetches, overlapped >>

config == << API_KEY, DATABASE_URL, clock >>
mainLocals == << today, idx, response, api_data, item >>
backfillLocals == << source_results, dates >>

NoDates == [source |-> 0, start |-> 0, current |-> 0, end |-> 0]

\* ---------------------------------------------------------------- queries
EntityId(name) == CHOOSE i \in 1..Len(entities) : entities[i] = name

EntityExists(name) == \E i \in 1..Len(entities) : entities[i] = name

\* the table as session p sees it
Visible(p) == results \o pending[p]

\* a variant that filters on the day before
ExistingResult_Yesterday(p, entity_id, d) ==
    \E r \in 1..Len(Visible(p)) :
        Visible(p)[r].entity_id = entity_id /\ Visible(p)[r].date = d - 1

\* a variant that filters on the date alone, as backfill_data's check does
ExistingResult_AnyEntity(p, entity_id, d) ==
    \E r \in 1..Len(Visible(p)) : Visible(p)[r].date = d

\* session.query(KnowledgeGraphDailyResult).filter_by(entity_id=, date=).first()
ExistingResult(p, entity_id, d) ==
    \E r \in 1..Len(Visible(p)) :
        Visible(p)[r].entity_id = entity_id /\ Visible(p)[r].date = d

\* a variant that looks at the date after current_date
ExistingForDate_NextDay(p, d) ==
    \E r \in 1..Len(Visible(p)) : Visible(p)[r].date = d + 1

\* session.query(KnowledgeGraphDailyResult).filter_by(date=current_date).first()
ExistingForDate(p, d) ==
    \E r \in 1..Len(Visible(p)) : Visible(p)[r].date = d

\* a variant whose query has lost its filter
SourceResults_AllDates(p, d) == Visible(p)

\* session.query(KnowledgeGraphDailyResult).filter_by(date=source_date).all()
SourceResults(p, d) ==
    SelectSeq(Visible(p), LAMBDA row : row.date = d)

\* ------------------------------------------------------------------ rows
\* KnowledgeGraphDailyResult(...) as main builds it from an API item
NewResult(entity_id, it, d) ==
    LET result == Get(it, "result", EmptyDict)
        detailed_desc == Get(result, "detailedDescription", EmptyDict)
    IN [ entity_id |-> entity_id,
         result_score |-> Get(it, "resultScore", NoneScore),
         name |-> Get(result, "name", NoneText),
         description |-> Get(result, "description", NoneText),
         article_body |-> Get(detailed_desc, "articleBody", NoneText),
         raw_json |-> it,
         date |-> d ]

\* ------------------------------------------------------- backfill's score
\* random.uniform(-0.05, 0.05), in thousandths: the two ends of the range
Jitters == {-50, 50}

\* round(x, 4) of x given in units of 10^-8, in units of 10^-5.  The float
\* product need not be the exact one, so a tie may round either way.
Round4(x) ==
    LET q == x \div 10000
        r == x % 10000
    IN IF r < 5000 THEN {10 * q}
       ELSE IF r > 5000 THEN {10 * (q + 1)}
       ELSE {10 * q, 10 * (q + 1)}

\* `if original_score`: None and 0 are falsy
ScoreTruthy(s) == s # NoneScore /\ s # 0

\* round(original_score * modifier, 4) if original_score else None
NewScores(original_score) ==
    IF ScoreTruthy(original_score)
    THEN UNION {Round4(original_score * (1000 + u)) : u \in Jitters}
    ELSE {NoneScore}

\* copy.deepcopy(source_result.raw_json), then new_raw_json['resultScore'] = new_score
NewRawJson(raw_json, new_score) ==
    IF new_score # NoneScore
    THEN [k \in DOMAIN raw_json \cup {"resultScore"} |->
            IF k = "resultScore" THEN new_score ELSE raw_json[k]]
    ELSE raw_json

\* KnowledgeGraphDailyResult(...) as backfill_data builds it from a source row
BackfillResult(source_result, new_score, d) ==
    [ entity_id |-> source_result.entity_id,
      result_score |-> new_score,
      name |-> source_result.name,
      description |-> source_result.description,
      article_body |-> source_result.article_body,
      raw_json |-> NewRawJson(source_result.raw_json, new_score),
      date |-> d ]

\* the row sequences the inner loop (lines 181-202) can add for one date
RECURSIVE Copies(_, _)
Copies(srcs, d) ==
    IF srcs = << >> THEN {<< >>}
    ELSE {<< BackfillResult(Head(srcs), s, d) >> \o rest :
            s \in NewScores(Head(srcs).result_score), rest \in Copies(Tail(srcs), d)}

\* ------------------------------------------------------------------ init
Init ==
    /\ API_KEY \in BOOLEAN
    /\ DATABASE_URL \in BOOLEAN
    /\ clock = MaxDate
    /\ entities = << >>
    /\ results = << >>
    /\ pc = [p \in Procs |-> "idle"]
    /\ today = [p \in Procs |-> 0]
    /\ idx = [p \in Procs |-> 0]
    /\ response = [p \in Procs |-> NoResponse]
    /\ api_data = [p \in Procs |-> NoneData]
    /\ item = [p \in Procs |-> 0]
    /\ pending = [p \in Procs |-> << >>]
    /\ source_results = [p \in Procs |-> << >>]
    /\ dates = [p \in Procs |-> NoDates]
    /\ runs = 0
    /\ runId = [p \in Procs |-> 0]
    /\ origin = << >>
    /\ fetches = [e \in 1..NumEntities |-> [d \in Dates |-> 0]]
    /\ overlapped = FALSE

\* ---------------------------------------------------------------- helpers
Running(p) == pc[p] # "idle"

\* a process leaves its run (it returns, an exception ends it, or it is
\* killed): the session and the locals are gone
Leave(p) ==
    /\ pc' = [pc EXCEPT ![p] = "idle"]
    /\ today' = [today EXCEPT ![p] = 0]
    /\ idx' = [idx EXCEPT ![p] = 0]
    /\ response' = [response EXCEPT ![p] = NoResponse]
    /\ api_data' = [api_data EXCEPT ![p] = NoneData]
    /\ item' = [item EXCEPT ![p] = 0]
    /\ pending' = [pending EXCEPT ![p] = << >>]
    /\ source_results' = [source_results EXCEPT ![p] = << >>]
    /\ dates' = [dates EXCEPT ![p] = NoDates]

Begin(p) ==
    /\ pc[p] = "idle"
    /\ runs < MaxRuns
    /\ runs' = runs + 1
    /\ runId' = [runId EXCEPT ![p] = runs + 1]
    /\ overlapped' = (overlapped \/ \E q \in Procs \ {p} : Running(q))

\* session.commit(): the pending rows become committed rows
Commit(p) ==
    /\ results' = results \o pending[p]
    /\ origin' = origin \o [i \in 1..Len(pending[p]) |-> runId[p]]

\* ------------------------------------------------------------------ main
\* main(), lines 84-99: the configuration checks, the session, today
StartMain(p) ==
    /\ Begin(p)
    /\ IF API_KEY /\ DATABASE_URL
       THEN /\ pc' = [pc EXCEPT ![p] = "m_entity"]
            /\ today' = [today EXCEPT ![p] = clock]
            /\ idx' = [idx EXCEPT ![p] = 1]
       ELSE /\ pc' = [pc EXCEPT ![p] = "idle"]
            /\ UNCHANGED << today, idx >>
    /\ UNCHANGED << config, entities, results, response, api_data, item,
                    pending, backfillLocals, origin, fetches >>

\* lines 101-104 and 144: the loop head and the entity lookup
MainEntity(p) ==
    /\ pc[p] = "m_entity"
    /\ IF idx[p] > Len(ENTITIES)
       THEN Leave(p)
       ELSE /\ pc' = [pc EXCEPT ![p] =
                        IF EntityExists(ENTITIES[idx[p]]) THEN "m_check" ELSE "m_create"]
            /\ UNCHANGED << mainLocals, pending, backfillLocals >>
    /\ UNCHANGED << config, entities, results, runs, runId, origin, fetches,
                    overlapped >>

\* lines 105-108: the entity row is added and committed; entities.name is
\* unique, so the commit of a name another session created meanwhile raises
MainCreate(p) ==
    /\ pc[p] = "m_create"
    /\ IF EntityExists(ENTITIES[idx[p]])
       THEN /\ Leave(p)
            /\ UNCHANGED entities
       ELSE /\ entities' = Append(entities, ENTITIES[idx[p]])
            /\ pc' = [pc EXCEPT ![p] = "m_check"]
            /\ UNCHANGED << mainLocals, pending, backfillLocals >>
    /\ UNCHANGED << config, results, runs, runId, origin, fetches, overlapped >>

\* a variant with the skip left out
MainCheck_NoSkip(p) ==
    /\ pc[p] = "m_check"
    /\ pc' = [pc EXCEPT ![p] = "m_fetch"]
    /\ UNCHANGED << config, entities, results, today, idx, response, api_data, item,
                    pending, backfillLocals, runs, runId, origin, fetches, overlapped >>

\* lines 110-118: the existence check and the skip
MainCheck(p) ==
    /\ pc[p] = "m_check"
    /\ IF ExistingResult(p, EntityId(ENTITIES[idx[p]]), today[p])
       THEN /\ idx' = [idx EXCEPT ![p] = idx[p] + 1]
            /\ pc' = [pc EXCEPT ![p] = "m_entity"]
       ELSE /\ pc' = [pc EXCEPT ![p] = "m_fetch"]
            /\ UNCHANGED idx
    /\ UNCHANGED << config, entities, results, today, response, api_data, item,
                    pending, backfillLocals, runs, runId, origin, fetches, overlapped >>

\* lines 120-121: the call of fetch_entity_data.  An exception it lets
\* through ends the run, with the response it met left on record.
MainFetch(p) ==
    /\ pc[p] = "m_fetch"
    /\ fetches' = [fetches EXCEPT ![idx[p]][today[p]] = @ + 1]
    /\ \E resp \in Responses(idx[p]) :
        /\ response' = [response EXCEPT ![p] = resp]
        /\ IF Raised(FetchEntityData(API_KEY, resp))
           THEN /\ pc' = [pc EXCEPT ![p] = "idle"]
                /\ today' = [today EXCEPT ![p] = 0]
                /\ idx' = [idx EXCEPT ![p] = 0]
                /\ pending' = [pending EXCEPT ![p] = << >>]
                /\ UNCHANGED << api_data, item >>
           ELSE /\ pc' = [pc EXCEPT ![p] = "m_map"]
                /\ api_data' = [api_data EXCEPT ![p] = FetchEntityData(API_KEY, resp)]
                /\ item' = [item EXCEPT ![p] = 1]
                /\ UNCHANGED << today, idx, pending >>
    /\ UNCHANGED << config, entities, results, backfillLocals, runs, runId, origin,
                    overlapped >>

\* line 123
HasItemList(data) == Truthy(data) /\ "itemListElement" \in DOMAIN data

\* a variant whose session.commit() stands inside the for loop
MainMap_CommitEach(p) ==
    /\ pc[p] = "m_map"
    /\ IF HasItemList(api_data[p])
       THEN IF item[p] <= Len(api_data[p].itemListElement)
            THEN /\ results' = Append(results,
                        NewResult(EntityId(ENTITIES[idx[p]]),
                                  api_data[p].itemListElement[item[p]], today[p]))
                 /\ origin' = Append(origin, runId[p])
                 /\ item' = [item EXCEPT ![p] = item[p] + 1]
                 /\ UNCHANGED << pc, idx >>
            ELSE /\ pc' = [pc EXCEPT ![p] = "m_commit"]
                 /\ UNCHANGED << results, origin, item, idx >>
       ELSE /\ pc' = [pc EXCEPT ![p] = "m_entity"]
            /\ idx' = [idx EXCEPT ![p] = idx[p] + 1]
            /\ UNCHANGED << results, origin, item >>
    /\ UNCHANGED << config, entities, today, response, api_data, pending,
                    backfillLocals, runs, runId, fetches, overlapped >>

\* lines 123-137 and 141-142: one item is mapped to a row and added, or the
\* entity is left with no data retrieved
MainMap(p) ==
    /\ pc[p] = "m_map"
    /\ IF HasItemList(api_data[p])
       THEN IF item[p] <= Len(api_data[p].itemListElement)
            THEN /\ pending' = [pending EXCEPT ![p] =
                        Append(@, NewResult(EntityId(ENTITIES[idx[p]]),
                                            api_data[p].itemListElement[item[p]],
                                            today[p]))]
                 /\ item' = [item EXCEPT ![p] = item[p] + 1]
                 /\ UNCHANGED << pc, idx >>
            ELSE /\ pc' = [pc EXCEPT ![p] = "m_commit"]
                 /\ UNCHANGED << pending, item, idx >>
       ELSE /\ pc' = [pc EXCEPT ![p] = "m_entity"]
            /\ idx' = [idx EXCEPT ![p] = idx[p] + 1]
            /\ UNCHANGED << pending, item >>
    /\ UNCHANGED << config, entities, results, today, response, api_data,
                    backfillLocals, runs, runId, origin, fetches, overlapped >>

\* lines 139-140: one commit per entity
MainCommit(p) ==
    /\ pc[p] = "m_commit"
    /\ Commit(p)
    /\ pending' = [pending EXCEPT ![p] = << >>]
    /\ pc' = [pc EXCEPT ![p] = "m_entity"]
    /\ idx' = [idx EXCEPT ![p] = idx[p] + 1]
    /\ UNCHANGED << config, entities, today, response, api_data, item,
                    backfillLocals, runs, runId, fetches, overlapped >>

\* -------------------------------------------------------------- backfill
\* run_backfill and backfill_data, lines 213-157: the configuration check,
\* the session and the dates
StartBackfill(p) ==
    /\ Begin(p)
    /\ IF DATABASE_URL
       THEN \E source_date \in Dates, start_date \in Dates, end_date \in Dates :
              /\ pc' = [pc EXCEPT ![p] = "b_source"]
              /\ dates' = [dates EXCEPT ![p] =
                    [ source |-> source_date, start |-> start_date,
                      current |-> start_date, end |-> end_date ]]
       ELSE /\ pc' = [pc EXCEPT ![p] = "idle"]
            /\ UNCHANGED dates
    /\ UNCHANGED << config, entities, results, mainLocals, pending, source_results,
                    origin, fetches >>

\* lines 159-166: the source rows, and the abort when there are none
BackfillSource(p) ==
    /\ pc[p] = "b_source"
    /\ IF SourceResults(p, dates[p].source) = << >>
       THEN Leave(p)
       ELSE /\ pc' = [pc EXCEPT ![p] = "b_date"]
            /\ source_results' =
                 [source_results EXCEPT ![p] = SourceResults(p, dates[p].source)]
            /\ UNCHANGED << mainLocals, pending, dates >>
    /\ UNCHANGED << config, entities, results, runs, runId, origin, fetches,
                    overlapped >>

\* lines 170-205: one pass of the while loop, for current_date
BackfillDate(p) ==
    /\ pc[p] = "b_date"
    /\ IF dates[p].current > dates[p].end
       THEN /\ pc' = [pc EXCEPT ![p] = "b_commit"]
            /\ UNCHANGED << pending, dates >>
       ELSE /\ dates' = [dates EXCEPT ![p].current = @ + 1]
            /\ UNCHANGED pc
            /\ IF ExistingForDate(p, dates[p].current)
               THEN UNCHANGED pending
               ELSE \E rows \in Copies(source_results[p], dates[p].current) :
                      pending' = [pending EXCEPT ![p] = @ \o rows]
    /\ UNCHANGED << config, entities, results, mainLocals, source_results, runs,
                    runId, origin, fetches, overlapped >>

\* lines 207-208 and 224: the one commit, and the return
BackfillCommit(p) ==
    /\ pc[p] = "b_commit"
    /\ Commit(p)
    /\ Leave(p)
    /\ UNCHANGED << config, entities, runs, runId, fetches, overlapped >>

\* ------------------------------------------------------------ environment
\* the process is killed (or the host dies): nothing pending is committed
Crash(p) ==
    /\ Running(p)
    /\ Leave(p)
    /\ UNCHANGED << config, entities, results, runs, runId, origin, fetches,
                    overlapped >>

\* ------------------------------------------------------------------ specs
Step(p) ==
    \/ MainEntity(p)
    \/ MainCreate(p)
    \/ MainCheck(p)
    \/ MainFetch(p)
    \/ MainMap(p)
    \/ MainCommit(p)
    \/ BackfillSource(p)
    \/ BackfillDate(p)
    \/ BackfillCommit(p)

\* one invocation at a time, each running to its end
NextSeq ==
    \/ StartMain(1)
    \/ StartBackfill(1)
    \/ Step(1)

SpecSeq == Init /\ [][NextSeq]_vars

\* one invocation at a time, which may be killed at any point
NextCrash ==
    \/ NextSeq
    \/ Crash(1)

SpecCrash == Init /\ [][NextCrash]_vars

\* the process an invocation can start as: the first one that is free (the
\* processes are alike, so this leaves out no behaviour but a renaming of one)
FirstFree(p) == pc[p] = "idle" /\ \A q \in Procs : q < p => Running(q)

\* invocations that may run at the same time
Next ==
    \E p \in Procs :
        \/ FirstFree(p) /\ StartMain(p)
        \/ FirstFree(p) /\ StartBackfill(p)
        \/ Step(p)

Spec == Init /\ [][Next]_vars

\* ------------------------------------------------------- what is claimed
Errors == {"transport_error", "http_error"}

\* the rows of table rs of the entity ENTITIES[e] for date d
StoredRowsIn(rs, e, d) ==
    IF EntityExists(ENTITIES[e])
    THEN {i \in 1..Len(rs) :
            rs[i].entity_id = EntityId(ENTITIES[e]) /\ rs[i].date = d}
    ELSE {}

\* the committed rows of the entity ENTITIES[e] for date d
StoredRows(e, d) == StoredRowsIn(results, e, d)

\* the committed rows for date d
RowsOn(d) == {i \in 1..Len(results) : results[i].date = d}

\* the API client yielded no items: None, no 'itemListElement', an empty list
NoItems(data) ==
    \/ IsNone(data)
    \/ "itemListElement" \notin DOMAIN data
    \/ data.itemListElement = << >>

InMain(p) == pc[p] \in {"m_entity", "m_create", "m_check", "m_fetch", "m_map", "m_commit"}

InBackfill(p) == pc[p] \in {"b_source", "b_date", "b_commit"}

\* C1: once an (entity, date) pair has a committed row, no step of a run adds
\* a row for the pair or calls fetch_entity_data for it, so a run of main()
\* after one that stored rows for an entity leaves its row count unchanged.
C1_SkipExisting ==
    [][\A e \in 1..NumEntities, d \in Dates :
         StoredRows(e, d) # {} =>
            /\ StoredRowsIn(results', e, d) = StoredRows(e, d)
            /\ fetches'[e][d] = fetches[e][d]]_vars

\* a later run of main() has gone past the first entity, whose rows an
\* earlier run stored, with the one fetch of that earlier run on record
C1_Witness ==
    /\ pc[1] = "m_entity"
    /\ idx[1] = 2
    /\ fetches[1][today[1]] = 1
    /\ StoredRows(1, today[1]) # {}
    /\ \A i \in StoredRows(1, today[1]) : origin[i] < runId[1]

\* C5, as stated: fetch_entity_data is called at most once for each
\* (entity, date) pair.
C5_AtMostOneFetch ==
    \A e \in 1..NumEntities, d \in Dates : fetches[e][d] <= 1

\* C5, amended: fetch_entity_data is called for an (entity, date) pair at
\* most once per invocation, and a run that has called it is working on a
\* pair with no committed row.
C5_FetchOnlyWithoutRow ==
    /\ \A e \in 1..NumEntities, d \in Dates : fetches[e][d] <= runs
    /\ \A p \in Procs :
         pc[p] \in {"m_map", "m_commit"} => StoredRows(idx[p], today[p]) = {}

\* the pair was fetched twice, and the second fetch is about to store rows
C5_Witness ==
    /\ pc[1] = "m_commit"
    /\ fetches[idx[1]][today[1]] = 2
    /\ pending[1] # << >>

\* C6: a run that got no items for an entity leaves it with no row and goes
\* on; a run that finds no row for an entity calls fetch_entity_data for it.
C6_RetryAfterNoItems ==
    [][\A p \in Procs :
         /\ ( /\ pc[p] \in {"m_map", "m_commit"}
              /\ NoItems(api_data[p])
              /\ pc'[p] = "m_entity" )
            => /\ results' = results
               /\ StoredRowsIn(results', idx[p], today[p]) = {}
         /\ ( /\ pc[p] = "m_check"
              /\ StoredRows(idx[p], today[p]) = {}
              /\ pc'[p] # "m_check" )
            => pc'[p] = "m_fetch"
         /\ ( pc[p] = "m_fetch" /\ pc'[p] # "m_fetch" )
            => fetches'[idx[p]][today[p]] = fetches[idx[p]][today[p]] + 1]_vars

\* a second run has fetched an entity again that still has no row, the
\* first run's fetch having yielded no items
C6_Witness ==
    /\ pc[1] = "m_map"
    /\ runs = 2
    /\ fetches[idx[1]][today[1]] = 2
    /\ StoredRows(idx[1], today[1]) = {}

\* C7: a transport error or an error status makes fetch_entity_data return
\* None; main() then stages and writes nothing for the entity and goes on
\* to the next one, and it returns only after the last entity.
C7_ErrorIsNoData ==
    [][\A p \in Procs :
         /\ ( /\ pc[p] = "m_fetch"
              /\ pc'[p] # "m_fetch"
              /\ response'[p].kind \in Errors )
            => pc'[p] = "m_map" /\ IsNone(api_data'[p])
         /\ ( /\ pc[p] = "m_map"
              /\ response[p].kind \in Errors )
            => /\ pc'[p] = "m_entity"
               /\ idx'[p] = idx[p] + 1
               /\ pending'[p] = << >>
               /\ results' = results
         /\ ( InMain(p) /\ pc'[p] = "idle" )
            => pc[p] = "m_entity" /\ idx[p] = Len(ENTITIES) + 1]_vars

\* the first entity's fetch met a transport error, no row was written for
\* it, and the run has gone on to the second entity
C7_Witness ==
    /\ pc[1] = "m_check"
    /\ idx[1] = 2
    /\ runs = 1
    /\ response[1].kind = "transport_error"
    /\ StoredRows(1, today[1]) = {}

\* the rows of table rs for date d
RowsOnIn(rs, d) == {i \in 1..Len(rs) : rs[i].date = d}

\* a backfill's target dates
Targets(p) == dates[p].start..dates[p].end

\* the committed rows are kept as they are
RowsKept == Len(results') >= Len(results) /\ SubSeq(results', 1, Len(results)) = results

\* C8: a backfill whose source date has no row returns at once and leaves
\* the table as it was; a backfill that goes on has source rows, all of the
\* source date.
C8_NoSourceNoWrite ==
    /\ [](\A p \in Procs :
            pc[p] \in {"b_date", "b_commit"} =>
               /\ source_results[p] # << >>
               /\ \A i \in 1..Len(source_results[p]) :
                     source_results[p][i].date = dates[p].source)
    /\ [][\A p \in Procs :
            (pc[p] = "b_source" /\ RowsOn(dates[p].source) = {}) =>
               /\ pc'[p] = "idle"
               /\ pending'[p] = << >>
               /\ results' = results]_vars

\* a backfill is about to load its source rows, the table holds rows, and
\* none of them is of the source date
C8_Witness ==
    /\ pc[1] = "b_source"
    /\ results # << >>
    /\ RowsOn(dates[1].source) = {}

\* C3: backfill_data stages rows only for dates that have no committed row,
\* so it stages nothing when every target date has one; no step changes a
\* committed row; and when a backfill has committed, every target date has
\* a row, so that a second run with the same arguments finds them all.
C3_SkipPopulatedDates ==
    /\ [](\A p \in Procs :
            InBackfill(p) =>
               /\ \A k \in 1..Len(pending[p]) : RowsOn(pending[p][k].date) = {}
               /\ (\A d \in Targets(p) : RowsOn(d) # {}) => pending[p] = << >>)
    /\ [][/\ RowsKept
          /\ \A p \in Procs :
               ( /\ pc[p] = "b_commit"
                 /\ pc'[p] = "idle"
                 /\ (results' # results \/ pending[p] = << >>) )
               => \A d \in Targets(p) : RowsOnIn(results', d) # {}]_vars

\* a backfill over two dates, both filled by an earlier backfill, has gone
\* through its range and staged nothing
C3_Witness ==
    /\ pc[1] = "b_commit"
    /\ pending[1] = << >>
    /\ dates[1].start = 1
    /\ dates[1].end = 2
    /\ \A d \in Targets(1) : \E i \in RowsOn(d) : origin[i] < runId[1]

\* the rows main() builds for all the items of api_data
ItemRows(p) ==
    [k \in 1..Len(api_data[p].itemListElement) |->
        NewResult(EntityId(ENTITIES[idx[p]]), api_data[p].itemListElement[k], today[p])]

\* the target dates a backfill found without a committed row
EmptyTargets(p) == {d \in Targets(p) : RowsOn(d) = {}}

\* C9: the committed table changes only at a commit, which adds what the
\* session staged: for main() the rows of all the items returned for the
\* entity, for backfill_data the rows of every target date it did not skip.
\* A run that stops anywhere else, or at the commit, adds nothing, and no
\* step removes or changes a committed row.
C9_CommitGranularity ==
    [][/\ RowsKept
       /\ (\A p \in Procs : pc[p] = "idle") => results' = results
       /\ \A p \in Procs :
            /\ pc[p] \in {"m_entity", "m_create", "m_check", "m_fetch", "m_map",
                          "b_source", "b_date"}
               => results' = results
            /\ pc[p] = "m_commit"
               => results' = results \/ results' = results \o ItemRows(p)
            /\ pc[p] = "b_commit"
               => \/ results' = results
                  \/ /\ results' = results \o pending[p]
                     /\ Len(pending[p]) =
                          Len(source_results[p]) * Cardinality(EmptyTargets(p))]_vars

\* main() has committed the first entity's rows and staged one of the two
\* items of the second; a stop here loses the staged row only
C9_Witness ==
    /\ pc[1] = "m_map"
    /\ idx[1] = 2
    /\ runs = 1
    /\ StoredRows(1, today[1]) # {}
    /\ HasItemList(api_data[1])
    /\ Len(api_data[1].itemListElement) = 2
    /\ Len(pending[1]) = 1

\* an (entity, date) pair holds rows committed by two invocations
DoubleInsert ==
    \E i \in 1..Len(results), j \in 1..Len(results) :
        /\ results[i].entity_id = results[j].entity_id
        /\ results[i].date = results[j].date
        /\ origin[i] # origin[j]

\* C10: a pair holds the rows of two invocations only if two invocations
\* ran at the same time.
C10_DoubleInsertNeedsOverlap == DoubleInsert => overlapped

\* two runs of main() have both stored the rows of a fetch for the same
\* entity and day
C10_Witness ==
    \E i \in 1..Len(results), j \in 1..Len(results) :
        /\ results[i].entity_id = results[j].entity_id
        /\ results[i].date = clock
        /\ results[j].date = clock
        /\ origin[i] # origin[j]

\* two runs of backfill_data have both stored their copies for the same
\* target date
C10_BackfillDoubleInsert ==
    \E i \in 1..Len(results), j \in 1..Len(results) :
        /\ results[i].entity_id = results[j].entity_id
        /\ results[i].date = results[j].date
        /\ results[i].date # clock
        /\ origin[i] # origin[j]

\* |new - old| <= 5% of old, for scores in the same unit
WithinFivePercent(new, old) ==
    LET diff == IF new >= old THEN new - old ELSE old - new
    IN 100 * diff <= 5 * old

\* the source row of the k-th row a backfill staged
SourceOf(p, k) == source_results[p][((k - 1) % Len(source_results[p])) + 1]

\* C2: a backfill whose target dates all lacked rows has staged, at its
\* commit, one row per source row and target date, each with a score within
\* 5% of its source row's score, or None when that score is None.
C2_CountAndScoreBand ==
    \A p \in Procs :
        (pc[p] = "b_commit" /\ \A d \in Targets(p) : RowsOn(d) = {}) =>
            /\ Len(pending[p]) = Len(source_results[p]) * Cardinality(Targets(p))
            /\ \A k \in 1..Len(pending[p]) :
                 IF SourceOf(p, k).result_score = NoneScore
                 THEN pending[p][k].result_score = NoneScore
                 ELSE /\ pending[p][k].result_score # NoneScore
                      /\ WithinFivePercent(pending[p][k].result_score,
                                           SourceOf(p, k).result_score)

\* C4: every row a backfill staged has its source row's entity, name,
\* description and body, and its source row's payload but for 'resultScore',
\* which is the new row's score; the source rows are as committed.
C4_PayloadAndFrame ==
    \A p \in Procs :
        pc[p] = "b_commit" =>
            /\ \A k \in 1..Len(pending[p]) :
                 LET new == pending[p][k]
                     src == SourceOf(p, k)
                 IN /\ new.entity_id = src.entity_id
                    /\ new.name = src.name
                    /\ new.description = src.description
                    /\ new.article_body = src.article_body
                    /\ DOMAIN new.raw_json \ {"resultScore"} =
                         DOMAIN src.raw_json \ {"resultScore"}
                    /\ \A f \in DOMAIN src.raw_json \ {"resultScore"} :
                         new.raw_json[f] = src.raw_json[f]
                    /\ Get(new.raw_json, "resultScore", NoneScore) = new.result_score
            /\ source_results[p] = SelectSeq(results, LAMBDA row : row.date = dates[p].source)
====
